---- MODULE Spec2Model ----
(***************************************************************************)
(* The Ahab docker-compose generator (scripts/generate-docker-compose.py): *)
(* the module registry (ModuleLoader), the depth-first dependency          *)
(* resolver, the service synthesizer with its service-discovery linker,    *)
(* the network/volume aggregator, and main()'s command-line driver.        *)
(*                                                                         *)
(* A Python dict is a TLA+ function whose DOMAIN is the dict's key set; a  *)
(* dict whose key order is observable (compose['services'], ...) is an     *)
(* ordered dict [keys |-> insertion order, map |-> contents].              *)
(***************************************************************************)
EXTENDS Naturals, Sequences, FiniteSets, TLC

\* ------------------------------------------------------------------ bounds

\* Places in which the modules directory differs from one plain,
\* dependency-free module.yml per name: a dependency entry, a missing
\* module.yml, a dependencies value that is no list, a docker section that is
\* not the plain one.
MaxDeviations == 3

\* Module names in one request (command line, or generate()'s argument).
MaxReq == 2

\* Calls a library client makes on one loader/generator pair (SpecApi).
MaxCalls == 2

\* ------------------------------------------------------------- vocabulary

\* The module directories that may exist under modules_dir.
Names == {"apache", "mysql", "nginx"}

Empty == <<>>

Range(s) == {s[k] : k \in 1..Len(s)}

SeqsOfLen(S, n) == [1..n -> S]

SeqsUpTo(S, n) == UNION {SeqsOfLen(S, k) : k \in 0..n}

\* The orders in which the elements of a finite set can be iterated.
Orders(S) == {s \in SeqsOfLen(S, Cardinality(S)) : Range(s) = S}

\* dict.get(key, default)
Get(d, key, default) == IF key \in DOMAIN d THEN d[key] ELSE default

\* An ordered dict, and d[k] = v on it: a new key goes last, an existing key
\* keeps its place.
EmptyDict == [keys |-> <<>>, map |-> Empty]

Put(d, k, v) ==
    [keys |-> IF k \in Range(d.keys) THEN d.keys ELSE Append(d.keys, k),
     map |-> (k :> v) @@ d.map]

\* ------------------------------------------------- module.yml documents

\* The value of a module.yml's `dependencies` key as yaml.safe_load returns
\* it: a list of names, or something that is not a list.
ListValue(s) == [kind |-> "list", items |-> s]

StrValue == [kind |-> "str", items |-> <<>>]

\* The dependencies key of a descriptor that lists the names of `s`; a
\* descriptor with no dependency has no such key.
DepsPart(s) == IF s = <<>> THEN Empty ELSE [dependencies |-> ListValue(s)]

\* The rest of a descriptor: its docker section and top-level keys.
PlainDoc == [docker |-> [image |-> "img"]]

NoImageDoc == [docker |-> [container_name |-> "c"]]

RichDoc ==
    [docker |->
        [image |-> "img",
         ports |-> <<"80:80">>,
         environment |-> [DB_HOST |-> "db.internal", TZ |-> "UTC"],
         networks |-> <<"backend">>,
         security_opt |-> <<"seccomp:unconfined">>,
         cap_drop |-> <<>>,
         resources |-> [limits |-> [cpus |-> "2", memory |-> "1G"]]],
     volumes |-> <<"data">>,
     version |-> "2.0"]

OddDocs == {NoImageDoc, RichDoc}

\* The descriptors that differ from the plain one in exactly k places.
Descriptors(k) ==
    {DepsPart(s) @@ PlainDoc : s \in SeqsOfLen(Names, k)}
        \cup (IF k >= 1
              THEN {DepsPart(s) @@ d :
                        s \in SeqsOfLen(Names, k - 1), d \in OddDocs}
              ELSE {})
        \cup (IF k = 1 THEN {[dependencies |-> StrValue] @@ PlainDoc} ELSE {})
        \cup (IF k = 2
              THEN {[dependencies |-> StrValue] @@ d : d \in OddDocs}
              ELSE {})

\* The modules directories over `names` within `budget` deviations: a
\* function from the names that have a module.yml to its parsed content.
RECURSIVE Dirs(_, _)
Dirs(names, budget) ==
    IF names = {} THEN {Empty}
    ELSE LET n == CHOOSE x \in names : TRUE
         IN  (IF budget >= 1 THEN Dirs(names \ {n}, budget - 1) ELSE {})
                 \cup UNION {
                        {(n :> d) @@ rest :
                            d \in Descriptors(k),
                            rest \in Dirs(names \ {n}, budget - k)} :
                        k \in 0..budget}

\* ----------------------------------------------------------- ModuleLoader

\* A variant of get_dependencies that returns the list last name first.
get_dependencies_reversed(mods, module_name) ==
    LET module == mods[module_name]
        deps == Get(module, "dependencies", ListValue(<<>>))
        n == Len(deps.items)
    IN  IF deps.kind = "list"
        THEN [k \in 1..n |-> deps.items[n + 1 - k]]
        ELSE <<>>

\* A variant of get_dependencies without the isinstance test: whatever the
\* dependencies value yields when iterated.
get_dependencies_unchecked(mods, module_name) ==
    Get(mods[module_name], "dependencies", ListValue(<<>>)).items

\* get_dependencies for a module that is in the registry `mods`: the declared
\* list, or the empty list when the key is absent or its value is no list.
get_dependencies(mods, module_name) ==
    LET module == mods[module_name]
        deps == Get(module, "dependencies", ListValue(<<>>))
    IN  IF deps.kind = "list" THEN deps.items ELSE <<>>

\* --------------------------------------------------- DockerComposeGenerator

\* dict.update: the keys of `u` are set in `d`, replacing what `d` held.
Update(d, u) == u @@ d

\* The key of `d`, copied when `d` has it.
Copy(d, key) == IF key \in DOMAIN d THEN key :> d[key] ELSE Empty

\* A variant of generate_service_discovery_env that gives the database
\* variables to every module when mysql is in the registry.
generate_service_discovery_env_any_module(module_name, base_env, mods) ==
    LET env1 == IF "mysql" \in DOMAIN mods
                THEN Update(base_env,
                            [DB_HOST |-> "ahab_mysql",
                             DB_PORT |-> "3306",
                             DB_NAME |-> "${MYSQL_DATABASE:-webapp}",
                             DB_USER |-> "${MYSQL_USER:-webapp}",
                             DB_PASSWORD |-> "${MYSQL_PASSWORD:-webapp123}"])
                ELSE base_env
        env2 == IF module_name \in {"php", "apache"} /\ "redis" \in DOMAIN mods
                THEN Update(env1,
                            [REDIS_HOST |-> "ahab_redis", REDIS_PORT |-> "6379"])
                ELSE env1
        env3 == IF module_name = "nginx" /\ "php" \in DOMAIN mods
                THEN Update(env2, [PHP_UPSTREAM |-> "ahab_php:80"])
                ELSE env2
    IN  IF module_name = "nginx" /\ "apache" \in DOMAIN mods
        THEN Update(env3, [APACHE_UPSTREAM |-> "ahab_apache:80"])
        ELSE env3

generate_service_discovery_env(module_name, base_env, mods) ==
    LET env0 == base_env
        env1 == IF module_name \in {"php", "apache"} /\ "mysql" \in DOMAIN mods
                THEN Update(env0,
                            [DB_HOST |-> "ahab_mysql",
                             DB_PORT |-> "3306",
                             DB_NAME |-> "${MYSQL_DATABASE:-webapp}",
                             DB_USER |-> "${MYSQL_USER:-webapp}",
                             DB_PASSWORD |-> "${MYSQL_PASSWORD:-webapp123}"])
                ELSE env0
        env2 == IF module_name \in {"php", "apache"} /\ "redis" \in DOMAIN mods
                THEN Update(env1,
                            [REDIS_HOST |-> "ahab_redis", REDIS_PORT |-> "6379"])
                ELSE env1
        env3 == IF module_name = "nginx" /\ "php" \in DOMAIN mods
                THEN Update(env2, [PHP_UPSTREAM |-> "ahab_php:80"])
                ELSE env2
        env4 == IF module_name = "nginx" /\ "apache" \in DOMAIN mods
                THEN Update(env3, [APACHE_UPSTREAM |-> "ahab_apache:80"])
                ELSE env3
    IN  env4

default_limits == [cpus |-> "0.5", memory |-> "512M"]

default_reservations == [cpus |-> "0.25", memory |-> "256M"]

\* A variant of MissingImage that accepts every docker section.
MissingImageIgnored(mods, module_name) == FALSE

\* Whether generate_service raises ValueError for the module.
MissingImage(mods, module_name) ==
    "image" \notin DOMAIN Get(mods[module_name], "docker", Empty)

\* A variant of security_options in which the descriptor's own security_opt
\* and cap_drop keys take precedence.
security_options_overridable(docker_config) ==
    Copy(docker_config, "security_opt")
        @@ Copy(docker_config, "cap_drop")
        @@ ("security_opt" :> <<"no-new-privileges:true">>)
        @@ ("cap_drop" :> <<"ALL">>)

\* The STIG security options every service gets.
security_options(docker_config) ==
    ("security_opt" :> <<"no-new-privileges:true">>)
        @@ ("cap_drop" :> <<"ALL">>)

\* A variant of deploy that takes the module's resources only when it gives
\* both limits and reservations.
deploy_both_or_defaults(docker_config) ==
    LET resources == Get(docker_config, "resources", Empty)
    IN  IF {"limits", "reservations"} \subseteq DOMAIN resources
        THEN [resources |->
                [limits |-> resources.limits,
                 reservations |-> resources.reservations]]
        ELSE [resources |->
                [limits |-> default_limits,
                 reservations |-> default_reservations]]

\* service['deploy']: "Check if module specifies custom limits".
deploy(docker_config) ==
    LET resources == Get(docker_config, "resources", Empty)
    IN  [resources |->
            [limits |-> Get(resources, "limits", default_limits),
             reservations |->
                Get(resources, "reservations", default_reservations)]]

\* A variant of cap_add that looks at the ports key alone.
cap_add_for_ports_only(module_name, docker_config) ==
    IF "ports" \in DOMAIN docker_config
    THEN "cap_add" :> <<"NET_BIND_SERVICE", "SETUID", "SETGID", "DAC_OVERRIDE">>
    ELSE Empty

\* "Add necessary capabilities for web servers"
cap_add(module_name, docker_config) ==
    IF module_name \in {"apache", "nginx"} \/ "ports" \in DOMAIN docker_config
    THEN "cap_add" :> <<"NET_BIND_SERVICE", "SETUID", "SETGID", "DAC_OVERRIDE">>
    ELSE Empty

\* The service generate_service returns for a module whose docker section
\* has an image.
generate_service(module_name, mods) ==
    LET module == mods[module_name]
        docker_config == Get(module, "docker", Empty)
        service_env ==
            generate_service_discovery_env(
                module_name, Get(docker_config, "environment", Empty), mods)
        deps == get_dependencies(mods, module_name)
    IN  Copy(docker_config, "image")
            @@ Copy(docker_config, "container_name")
            @@ Copy(docker_config, "restart")
            @@ Copy(docker_config, "ports")
            @@ Copy(docker_config, "volumes")
            @@ (IF DOMAIN service_env # {}
                THEN "environment" :> service_env ELSE Empty)
            @@ Copy(docker_config, "networks")
            @@ (IF deps # <<>> THEN "depends_on" :> deps ELSE Empty)
            @@ security_options(docker_config)
            @@ cap_add(module_name, docker_config)
            @@ ("deploy" :> deploy(docker_config))
            @@ ("labels" :>
                    [module |-> module_name,
                     version |-> Get(module, "version", "1.0.0"),
                     description |-> Get(module, "description", ""),
                     stig_compliant |-> "true"])

\* A variant of NetworkNames without the default network.
NetworkNamesDeclaredOnly(mods, resolved_modules) ==
    UNION {Range(Get(Get(mods[m], "docker", Empty), "networks", <<>>)) :
            m \in Range(resolved_modules)}

\* A variant of NetworkNames that defines the default network alone.
NetworkNamesDefaultOnly(mods, resolved_modules) == {"ahab_network"}

\* The names generate_networks collects: every module's docker.networks and
\* the default network.
NetworkNames(mods, resolved_modules) ==
    UNION {Range(Get(Get(mods[m], "docker", Empty), "networks", <<>>)) :
            m \in Range(resolved_modules)}
        \cup {"ahab_network"}

NetworkDef(network) ==
    [driver |-> "bridge", name |-> network,
     labels |-> [network |-> "true", created |-> "auto-generated"]]

\* The names generate_volumes collects: every module's top-level volumes.
VolumeNames(mods, resolved_modules) ==
    UNION {Range(Get(mods[m], "volumes", <<>>)) : m \in Range(resolved_modules)}

VolumeDef ==
    [driver |-> "local",
     labels |-> [volume |-> "true", created |-> "auto-generated"]]

\* generate_networks' loop: compose['networks'][network] = {...} for the
\* names in the order the set yields them.
RECURSIVE PutNetworks(_, _)
PutNetworks(d, order) ==
    IF order = <<>> THEN d
    ELSE PutNetworks(Put(d, Head(order), NetworkDef(Head(order))), Tail(order))

\* generate_volumes' loop.
RECURSIVE PutVolumes(_, _)
PutVolumes(d, order) ==
    IF order = <<>> THEN d
    ELSE PutVolumes(Put(d, Head(order), VolumeDef), Tail(order))

\* ------------------------------------------------------------------ state

VARIABLES
    fs,         \* the modules directory: name -> parsed module.yml
    args,       \* main()'s parsed command line
    pc,         \* where the run is
    modules,    \* ModuleLoader.modules, the registry
    requested,  \* the `modules` list of main() and of generate()
    i,          \* the index of the loop the run is in
    seen,       \* resolve_dependencies' seen
    resolved,   \* resolve_dependencies' resolved
    stack,      \* the active calls of resolve(): [name, deps still to visit]
    compose,    \* DockerComposeGenerator.compose
    output,     \* the output file: <<>> until written, then <<its content>>
    error,      \* the exception raised, or the error main() reported
    status,     \* the exit status of main()
    calls,      \* calls the library client has made
    result,     \* what the client's last call of get_dependencies returned
    repo_url,   \* analyze_repository's argument
    use_cache,  \* analyze_repository's argument
    cache,      \* GitAnalyzer.cache_dir and the cache file of repo_url
    attempt,    \* the loop variable of _analyze_github and _analyze_gitlab
    metadata    \* what analyze_repository returned

\* The state of a GitAnalyzer and of its call.
analyzer == <<repo_url, use_cache, cache, attempt, metadata>>

vars == <<fs, args, pc, modules, requested, i, seen, resolved, stack, compose,
          output, error, status, calls, result, analyzer>>

NoError == [kind |-> "none", module |-> ""]

\* Before any call of get_dependencies by the client.
NoResult == [name |-> "", value |-> <<>>]

\* No GitAnalyzer has been made.
NoAnalyzer ==
    /\ repo_url = ""
    /\ use_cache = FALSE
    /\ cache = <<>>
    /\ attempt = 0
    /\ metadata = <<>>

\* DockerComposeGenerator.__init__
NewCompose ==
    [services |-> EmptyDict, networks |-> EmptyDict, volumes |-> EmptyDict]

Requests == SeqsUpTo(Names, MaxReq)

ArgsSet ==
    {[all |-> FALSE, validate |-> v, modules |-> r] :
        v \in BOOLEAN, r \in Requests}
        \cup {[all |-> TRUE, validate |-> v, modules |-> <<>>] : v \in BOOLEAN}

InitCommon ==
    /\ fs \in Dirs(Names, MaxDeviations)
    /\ modules = Empty
    /\ i = 1
    /\ seen = {}
    /\ resolved = <<>>
    /\ stack = <<>>
    /\ compose = NewCompose
    /\ output = <<>>
    /\ error = NoError
    /\ status = 0
    /\ calls = 0
    /\ result = NoResult
    /\ NoAnalyzer

\* main() after parse_args, the modules directory existing.
Init ==
    /\ InitCommon
    /\ args \in ArgsSet
    /\ requested = <<>>
    /\ pc = "main"

\* ------------------------------------------------------------ ModuleLoader

\* load_module when module_file.exists(): self.modules[module_name] = data
load_module(mods, module_name) == (module_name :> fs[module_name]) @@ mods

\* module_file = self.modules_dir / module_name / "module.yml"
module_file(module_name) == <<"modules", module_name, "module.yml">>

\* FileNotFoundError(f"Module {module_name} not found at {module_file}")
FileNotFound(module_name) ==
    [kind |-> "FileNotFoundError", module |-> module_name,
     path |-> module_file(module_name)]

\* The call resolve(module_name) that comes next: by the loop over the
\* request when no call is active, by the innermost call's loop over its
\* dependencies otherwise.
Top == stack[Len(stack)]

HasCallee ==
    IF stack = <<>> THEN i <= Len(requested) ELSE Top.deps # <<>>

\* A variant of Callee in which the loop over the request starts at its end.
CalleeFromEnd ==
    IF stack = <<>> THEN requested[Len(requested) + 1 - i] ELSE Head(Top.deps)

Callee == IF stack = <<>> THEN requested[i] ELSE Head(Top.deps)

\* The caller's loop takes its next element.
AdvanceStack ==
    IF stack = <<>> THEN stack
    ELSE [stack EXCEPT ![Len(stack)].deps = Tail(@)]

AdvanceIndex == IF stack = <<>> THEN i + 1 ELSE i

\* A variant of ResolveSkip that reports a cycle when the name is one whose
\* resolve() call is still active.
ResolveSkipCycleError ==
    /\ pc = "resolve"
    /\ HasCallee
    /\ Callee \in seen
    /\ IF Callee \in {stack[k].name : k \in 1..Len(stack)}
       THEN /\ error' = [kind |-> "CycleError", module |-> Callee]
            /\ stack' = <<>>
            /\ pc' = "raised"
            /\ UNCHANGED i
       ELSE /\ stack' = AdvanceStack
            /\ i' = AdvanceIndex
            /\ UNCHANGED <<pc, error>>
    /\ UNCHANGED <<fs, args, modules, requested, seen, resolved, compose,
                   output, status, calls, result, analyzer>>

\* resolve(module_name) for a name in seen: return.
ResolveSkip ==
    /\ pc = "resolve"
    /\ HasCallee
    /\ Callee \in seen
    /\ stack' = AdvanceStack
    /\ i' = AdvanceIndex
    /\ UNCHANGED <<fs, args, pc, modules, requested, seen, resolved, compose,
                   output, error, status, calls, result, analyzer>>

\* A variant of ResolveEnter that does not visit the dependencies of a
\* module the registry already held.
ResolveEnterLoadedOnly ==
    /\ pc = "resolve"
    /\ HasCallee
    /\ Callee \notin seen
    /\ Callee \in DOMAIN modules \cup DOMAIN fs
    /\ seen' = seen \cup {Callee}
    /\ modules' = IF Callee \in DOMAIN modules THEN modules
                  ELSE load_module(modules, Callee)
    /\ stack' = Append(AdvanceStack,
                       [name |-> Callee,
                        deps |-> IF Callee \in DOMAIN modules THEN <<>>
                                 ELSE get_dependencies(modules', Callee)])
    /\ i' = AdvanceIndex
    /\ UNCHANGED <<fs, args, pc, requested, resolved, compose, output, error,
                   status, calls, result, analyzer>>

\* A variant of ResolveEnter that appends the module to resolved as the
\* call starts, ahead of its dependencies.
ResolveEnterEmitting ==
    /\ pc = "resolve"
    /\ HasCallee
    /\ Callee \notin seen
    /\ Callee \in DOMAIN modules \cup DOMAIN fs
    /\ seen' = seen \cup {Callee}
    /\ modules' = IF Callee \in DOMAIN modules THEN modules
                  ELSE load_module(modules, Callee)
    /\ resolved' = Append(resolved, Callee)
    /\ stack' = Append(AdvanceStack,
                       [name |-> Callee,
                        deps |-> get_dependencies(modules', Callee)])
    /\ i' = AdvanceIndex
    /\ UNCHANGED <<fs, args, pc, requested, compose, output, error,
                   status, calls, result, analyzer>>

\* resolve(module_name) for a new name: mark it seen, load it when the
\* registry lacks it, and start the loop over its dependencies.
ResolveEnter ==
    /\ pc = "resolve"
    /\ HasCallee
    /\ Callee \notin seen
    /\ Callee \in DOMAIN modules \cup DOMAIN fs
    /\ seen' = seen \cup {Callee}
    /\ modules' = IF Callee \in DOMAIN modules THEN modules
                  ELSE load_module(modules, Callee)
    /\ stack' = Append(AdvanceStack,
                       [name |-> Callee,
                        deps |-> get_dependencies(modules', Callee)])
    /\ i' = AdvanceIndex
    /\ UNCHANGED <<fs, args, pc, requested, resolved, compose, output, error,
                   status, calls, result, analyzer>>

\* A variant of ResolveNotFound in which the failed load has entered an
\* empty descriptor in the registry before it raises.
ResolveNotFoundRegistering ==
    /\ pc = "resolve"
    /\ HasCallee
    /\ Callee \notin seen
    /\ Callee \notin DOMAIN modules \cup DOMAIN fs
    /\ seen' = seen \cup {Callee}
    /\ modules' = (Callee :> Empty) @@ modules
    /\ error' = FileNotFound(Callee)
    /\ stack' = <<>>
    /\ pc' = "raised"
    /\ UNCHANGED <<fs, args, requested, i, resolved, compose, output,
                   status, calls, result, analyzer>>

\* resolve(module_name) for a new name with no module.yml: load_module
\* raises, and the exception leaves resolve_dependencies and generate.
ResolveNotFound ==
    /\ pc = "resolve"
    /\ HasCallee
    /\ Callee \notin seen
    /\ Callee \notin DOMAIN modules \cup DOMAIN fs
    /\ seen' = seen \cup {Callee}
    /\ error' = FileNotFound(Callee)
    /\ stack' = <<>>
    /\ pc' = "raised"
    /\ UNCHANGED <<fs, args, modules, requested, i, resolved, compose, output,
                   status, calls, result, analyzer>>

\* A variant of ResolveReturn that puts the module first in resolved.
ResolveReturnPrepend ==
    /\ pc = "resolve"
    /\ stack # <<>>
    /\ Top.deps = <<>>
    /\ resolved' = <<Top.name>> \o resolved
    /\ stack' = SubSeq(stack, 1, Len(stack) - 1)
    /\ UNCHANGED <<fs, args, pc, modules, requested, i, seen, compose, output,
                   error, status, calls, result, analyzer>>

\* A variant of ResolveReturn that synthesizes the module's service as soon
\* as the module is resolved.
ResolveReturnSynthesizing ==
    /\ pc = "resolve"
    /\ stack # <<>>
    /\ Top.deps = <<>>
    /\ resolved' = Append(resolved, Top.name)
    /\ stack' = SubSeq(stack, 1, Len(stack) - 1)
    /\ compose' = [compose EXCEPT
                     !.services =
                        Put(@, Top.name, generate_service(Top.name, modules))]
    /\ UNCHANGED <<fs, args, pc, modules, requested, i, seen, output,
                   error, status, calls, result, analyzer>>

\* The loop over the dependencies is over: resolved.append(module_name).
ResolveReturn ==
    /\ pc = "resolve"
    /\ stack # <<>>
    /\ Top.deps = <<>>
    /\ resolved' = Append(resolved, Top.name)
    /\ stack' = SubSeq(stack, 1, Len(stack) - 1)
    /\ UNCHANGED <<fs, args, pc, modules, requested, i, seen, compose, output,
                   error, status, calls, result, analyzer>>

\* resolve_dependencies returns resolved; generate starts its services loop.
ResolveDone ==
    /\ pc = "resolve"
    /\ stack = <<>>
    /\ i > Len(requested)
    /\ pc' = "services"
    /\ i' = 1
    /\ UNCHANGED <<fs, args, modules, requested, seen, resolved, stack,
                   compose, output, error, status, calls, result, analyzer>>

\* --------------------------------------------------- DockerComposeGenerator

\* del d[key]
Del(d, key) == [k \in DOMAIN d \ {key} |-> d[k]]

\* A variant of ServiceOrder: the request as given, not the resolved order.
ServiceOrderRequested == requested

\* The list generate's services loop runs over: resolved_modules.
ServiceOrder == resolved

\* One turn of generate's loop over resolved_modules.
GenerateService ==
    /\ pc = "services"
    /\ i <= Len(ServiceOrder)
    /\ ~MissingImage(modules, ServiceOrder[i])
    /\ compose' = [compose EXCEPT
                     !.services =
                        Put(@, ServiceOrder[i],
                            generate_service(ServiceOrder[i], modules))]
    /\ i' = i + 1
    /\ UNCHANGED <<fs, args, pc, modules, requested, seen, resolved, stack,
                   output, error, status, calls, result, analyzer>>

\* generate_service raises ValueError: the module has no docker.image.
GenerateServiceNoImage ==
    /\ pc = "services"
    /\ i <= Len(ServiceOrder)
    /\ MissingImage(modules, ServiceOrder[i])
    /\ error' = [kind |-> "ValueError", module |-> ServiceOrder[i]]
    /\ pc' = "raised"
    /\ UNCHANGED <<fs, args, modules, requested, i, seen, resolved, stack,
                   compose, output, status, calls, result, analyzer>>

\* compose after generate_networks, the set of names iterated in `order`.
generate_networks(c, order) ==
    [c EXCEPT !.networks = PutNetworks(@, order)]

\* compose after generate_volumes.
generate_volumes(c, order) ==
    [c EXCEPT !.volumes = PutVolumes(@, order)]

\* A variant of RemoveEmpty that removes no section.
RemoveEmptyKeepsAll(c) == c

\* "Remove empty sections"
RemoveEmpty(c) ==
    LET c1 == IF c.networks.keys = <<>> THEN Del(c, "networks") ELSE c
    IN  IF c1.volumes.keys = <<>> THEN Del(c1, "volumes") ELSE c1

\* The rest of generate: networks, volumes, the empty sections removed.
GenerateFinish ==
    /\ pc = "services"
    /\ i > Len(ServiceOrder)
    /\ {"networks", "volumes"} \subseteq DOMAIN compose
    /\ \E norder \in Orders(NetworkNames(modules, resolved)),
          vorder \in Orders(VolumeNames(modules, resolved)) :
            compose' = RemoveEmpty(
                         generate_volumes(
                            generate_networks(compose, norder), vorder))
    /\ pc' = "generated"
    /\ UNCHANGED <<fs, args, modules, requested, i, seen, resolved, stack,
                   output, error, status, calls, result, analyzer>>

\* save: yaml.dump(self.compose, f, sort_keys=False)
save == <<compose>>

\* ------------------------------------------------------------------ main

\* --all: load_all_modules, then the request is the registry's keys, in the
\* order iterdir yielded the directories.
MainAll ==
    /\ pc = "main"
    /\ args.all
    /\ modules' = fs
    /\ IF DOMAIN fs = {}
       THEN /\ error' = [kind |-> "NoModules", module |-> ""]
            /\ status' = 1
            /\ pc' = "exit"
            /\ UNCHANGED requested
       ELSE /\ requested' \in Orders(DOMAIN fs)
            /\ pc' = "loading"
            /\ UNCHANGED <<error, status>>
    /\ UNCHANGED <<fs, args, i, seen, resolved, stack, compose, output, calls,
                   result, analyzer>>

\* A variant of MainModules that calls load_all_modules before it takes
\* the names of the command line as the request.
MainModulesLoadingAll ==
    /\ pc = "main"
    /\ ~args.all
    /\ args.modules # <<>>
    /\ modules' = fs
    /\ requested' = args.modules
    /\ pc' = "loading"
    /\ UNCHANGED <<fs, args, i, seen, resolved, stack, compose,
                   output, error, status, calls, result, analyzer>>

\* Module names on the command line.
MainModules ==
    /\ pc = "main"
    /\ ~args.all
    /\ args.modules # <<>>
    /\ requested' = args.modules
    /\ pc' = "loading"
    /\ UNCHANGED <<fs, args, modules, i, seen, resolved, stack, compose,
                   output, error, status, calls, result, analyzer>>

\* Neither: "Error: Specify modules or use --all".
MainUsage ==
    /\ pc = "main"
    /\ ~args.all
    /\ args.modules = <<>>
    /\ error' = [kind |-> "Usage", module |-> ""]
    /\ status' = 1
    /\ pc' = "exit"
    /\ UNCHANGED <<fs, args, modules, requested, i, seen, resolved, stack,
                   compose, output, calls, result, analyzer>>

\* "Validate modules": one turn of the loop that loads each requested module.
MainLoad ==
    /\ pc = "loading"
    /\ i <= Len(requested)
    /\ requested[i] \in DOMAIN fs
    /\ modules' = load_module(modules, requested[i])
    /\ i' = i + 1
    /\ UNCHANGED <<fs, args, pc, requested, seen, resolved, stack, compose,
                   output, error, status, calls, result, analyzer>>

\* The loop's except FileNotFoundError: report and sys.exit(1).
MainLoadNotFound ==
    /\ pc = "loading"
    /\ i <= Len(requested)
    /\ requested[i] \notin DOMAIN fs
    /\ error' = FileNotFound(requested[i])
    /\ status' = 1
    /\ pc' = "exit"
    /\ UNCHANGED <<fs, args, modules, requested, i, seen, resolved, stack,
                   compose, output, calls, result, analyzer>>

\* --validate: "All modules validated successfully", sys.exit(0).
MainValidated ==
    /\ pc = "loading"
    /\ i > Len(requested)
    /\ args.validate
    /\ status' = 0
    /\ pc' = "exit"
    /\ UNCHANGED <<fs, args, modules, requested, i, seen, resolved, stack,
                   compose, output, error, calls, result, analyzer>>

\* generator = DockerComposeGenerator(loader); generator.generate(modules)
MainGenerate ==
    /\ pc = "loading"
    /\ i > Len(requested)
    /\ ~args.validate
    /\ compose' = NewCompose
    /\ resolved' = <<>>
    /\ seen' = {}
    /\ stack' = <<>>
    /\ i' = 1
    /\ pc' = "resolve"
    /\ UNCHANGED <<fs, args, modules, requested, output, error, status, calls,
                   result, analyzer>>

\* generator.save(output_file), the summary, and the end of main().
MainSave ==
    /\ pc = "generated"
    /\ output' = save
    /\ status' = 0
    /\ pc' = "exit"
    /\ UNCHANGED <<fs, args, modules, requested, i, seen, resolved, stack,
                   compose, error, calls, result, analyzer>>

\* A variant of MainCrash in which main() saves whatever generate() had
\* assembled before it reports the exception.
MainCrashSaving ==
    /\ pc = "raised"
    /\ output' = save
    /\ status' = 1
    /\ pc' = "exit"
    /\ UNCHANGED <<fs, args, modules, requested, i, seen, resolved, stack,
                   compose, error, calls, result, analyzer>>

\* An exception generate() raised is caught nowhere: traceback, status 1.
MainCrash ==
    /\ pc = "raised"
    /\ status' = 1
    /\ pc' = "exit"
    /\ UNCHANGED <<fs, args, modules, requested, i, seen, resolved, stack,
                   compose, output, error, calls, result, analyzer>>

Generate ==
    \/ ResolveSkip
    \/ ResolveEnter
    \/ ResolveNotFound
    \/ ResolveReturn
    \/ ResolveDone
    \/ GenerateService
    \/ GenerateServiceNoImage
    \/ GenerateFinish

Next ==
    \/ MainAll
    \/ MainModules
    \/ MainUsage
    \/ MainLoad
    \/ MainLoadNotFound
    \/ MainValidated
    \/ MainGenerate
    \/ Generate
    \/ MainSave
    \/ MainCrash

Spec == Init /\ [][Next]_vars

\* ----------------------------------------- main() on plain descriptors

\* main() after parse_args on a directory whose descriptors differ in
\* their dependencies alone.
InitMain ==
    /\ InitCommon
    /\ \A n \in DOMAIN fs : Get(fs[n], "docker", Empty) = PlainDoc.docker
    /\ args \in ArgsSet
    /\ requested = <<>>
    /\ pc = "main"

NextMain ==
    \/ MainAll
    \/ MainModules
    \/ MainUsage
    \/ MainLoad
    \/ MainLoadNotFound
    \/ MainValidated
    \/ MainGenerate
    \/ ResolveSkip
    \/ ResolveEnter
    \/ ResolveNotFound
    \/ ResolveReturn
    \/ ResolveDone
    \/ GenerateService
    \/ GenerateFinish
    \/ MainSave
    \/ MainCrash

SpecMain == InitMain /\ [][NextMain]_vars

\* ---------------------------------------- resolve_dependencies by itself

\* The descriptors of the directory have the plain docker section:
\* resolution reads nothing but the dependencies key.
PlainDocs(dir) ==
    \A n \in DOMAIN dir : Get(dir[n], "docker", Empty) = PlainDoc.docker

\* loader.resolve_dependencies(req) has been called on a fresh loader.
InitResolve ==
    /\ InitCommon
    /\ PlainDocs(fs)
    /\ args = [all |-> FALSE, validate |-> FALSE, modules |-> <<>>]
    /\ requested \in Requests
    /\ pc = "resolve"

NextResolve ==
    \/ ResolveSkip
    \/ ResolveEnter
    \/ ResolveNotFound
    \/ ResolveReturn
    \/ ResolveDone

\* The interpreter is single-threaded and runs the call to its end: a step
\* that can be taken is taken.
SpecResolve ==
    InitResolve /\ [][NextResolve]_vars /\ WF_vars(NextResolve)

\* The same call, with nothing said about steps being taken.
SpecTraverse == InitResolve /\ [][NextResolve]_vars

\* ------------------------------------------------------ a library client

\* generate() on a compose whose 'volumes' key an earlier generate() deleted:
\* generate_networks has run, then self.compose['volumes'] raises KeyError,
\* in generate_volumes' loop or in the test of "Remove empty sections".
GenerateKeyError ==
    /\ pc = "services"
    /\ i > Len(ServiceOrder)
    /\ "networks" \in DOMAIN compose
    /\ "volumes" \notin DOMAIN compose
    /\ \E norder \in Orders(NetworkNames(modules, resolved)) :
            compose' = generate_networks(compose, norder)
    /\ error' = [kind |-> "KeyError", module |-> ""]
    /\ pc' = "raised"
    /\ UNCHANGED <<fs, args, modules, requested, i, seen, resolved, stack,
                   output, status, calls, result, analyzer>>

\* The client is between two calls and makes another one.
ApiReady == pc \in {"idle", "generated", "raised"} /\ calls < MaxCalls

ApiLoadModule ==
    /\ ApiReady
    /\ \E n \in DOMAIN fs : modules' = load_module(modules, n)
    /\ error' = NoError
    /\ pc' = "idle"
    /\ calls' = calls + 1
    /\ UNCHANGED <<fs, args, requested, i, seen, resolved, stack, compose,
                   output, status, result, analyzer>>

ApiLoadModuleNotFound ==
    /\ ApiReady
    /\ \E n \in Names \ DOMAIN fs : error' = FileNotFound(n)
    /\ pc' = "raised"
    /\ calls' = calls + 1
    /\ UNCHANGED <<fs, args, modules, requested, i, seen, resolved, stack,
                   compose, output, status, result, analyzer>>

ApiLoadAll ==
    /\ ApiReady
    /\ modules' = fs @@ modules
    /\ error' = NoError
    /\ pc' = "idle"
    /\ calls' = calls + 1
    /\ UNCHANGED <<fs, args, requested, i, seen, resolved, stack, compose,
                   output, status, result, analyzer>>

\* generator.generate(req) on the one generator the client holds.
ApiGenerate ==
    /\ ApiReady
    /\ requested' \in Requests
    /\ resolved' = <<>>
    /\ seen' = {}
    /\ stack' = <<>>
    /\ i' = 1
    /\ error' = NoError
    /\ pc' = "resolve"
    /\ calls' = calls + 1
    /\ UNCHANGED <<fs, args, modules, compose, output, status, result,
                   analyzer>>

ApiSave ==
    /\ ApiReady
    /\ output' = save
    /\ error' = NoError
    /\ pc' = "idle"
    /\ calls' = calls + 1
    /\ UNCHANGED <<fs, args, modules, requested, i, seen, resolved, stack,
                   compose, status, result, analyzer>>

\* A fresh loader and a fresh generator on it.
InitApi ==
    /\ InitCommon
    /\ args = [all |-> FALSE, validate |-> FALSE, modules |-> <<>>]
    /\ requested = <<>>
    /\ pc = "idle"

NextApi ==
    \/ ApiLoadModule
    \/ ApiLoadModuleNotFound
    \/ ApiLoadAll
    \/ ApiGenerate
    \/ ApiSave
    \/ Generate
    \/ GenerateKeyError

SpecApi == InitApi /\ [][NextApi]_vars

\* ------------------------------- a client that generates and saves twice

\* generator.save(path) after the first generate(req) has returned.
TwiceSave ==
    /\ pc = "generated"
    /\ calls = 1
    /\ output' = save
    /\ calls' = 2
    /\ pc' = "saved"
    /\ UNCHANGED <<fs, args, modules, requested, i, seen, resolved, stack,
                   compose, error, status, result, analyzer>>

\* generator.generate(req) again: same generator, same loader, same request.
TwiceGenerate ==
    /\ pc = "saved"
    /\ resolved' = <<>>
    /\ seen' = {}
    /\ stack' = <<>>
    /\ i' = 1
    /\ calls' = 3
    /\ pc' = "resolve"
    /\ UNCHANGED <<fs, args, modules, requested, compose, output, error,
                   status, result, analyzer>>

\* generate(req) has been called on a fresh generator over a fresh loader.
InitTwice ==
    /\ fs \in Dirs(Names, MaxDeviations)
    /\ args = [all |-> FALSE, validate |-> FALSE, modules |-> <<>>]
    /\ requested \in Requests
    /\ modules = Empty
    /\ i = 1
    /\ seen = {}
    /\ resolved = <<>>
    /\ stack = <<>>
    /\ compose = NewCompose
    /\ output = <<>>
    /\ error = NoError
    /\ status = 0
    /\ calls = 1
    /\ result = NoResult
    /\ NoAnalyzer
    /\ pc = "resolve"

NextTwice ==
    \/ Generate
    \/ GenerateKeyError
    \/ TwiceSave
    \/ TwiceGenerate

SpecTwice == InitTwice /\ [][NextTwice]_vars

\* ------------------------------------------- one run of main() after another

\* The script is started again with the same command line on the same
\* modules directory: a new process, a new loader and generator, the file the
\* earlier run wrote still on disk.
RunAgain ==
    /\ pc = "exit"
    /\ output # <<>>
    /\ modules' = Empty
    /\ requested' = <<>>
    /\ i' = 1
    /\ seen' = {}
    /\ resolved' = <<>>
    /\ stack' = <<>>
    /\ compose' = NewCompose
    /\ error' = NoError
    /\ status' = 0
    /\ pc' = "main"
    /\ UNCHANGED <<fs, args, output, calls, result, analyzer>>

NextRuns ==
    \/ Next
    \/ RunAgain

SpecRuns == Init /\ [][NextRuns]_vars

\* ------------------------------------------------- generate-compose.py

\* The sections generate_compose merges.
Sections == {"services", "networks", "volumes"}

\* A section of a module.yml with one entry.
Entry(k, v) == Put(EmptyDict, k, v)

\* The module.yml files of the modules directory generate-compose.py reads:
\* each section absent or with one entry under a name other modules use too.
ServicesParts ==
    {Empty} \cup {[services |-> Entry(k, [image |-> v])] :
                    k \in {"web"}, v \in {"httpd", "nginx"}}
            \cup {[services |-> Entry("db", [image |-> "mysql"])]}

NetworksParts ==
    {Empty} \cup {[networks |-> Entry("front", [driver |-> v])] :
                    v \in {"bridge", "overlay"}}

VolumesParts ==
    {Empty} \cup {[volumes |-> Entry("data", [driver |-> v])] :
                    v \in {"local", "nfs"}}

Fragments ==
    {s @@ n @@ v : s \in ServicesParts, n \in NetworksParts,
                   v \in VolumesParts}

\* Directories in which nginx has no module.yml.
FragmentDirs ==
    UNION {[S -> Fragments] : S \in SUBSET {"apache", "mysql"}}

\* dict.update: a key d has keeps its place and takes u's value, the other
\* keys of u are appended in u's order.
RECURSIVE UpdateKeys(_, _, _)
UpdateKeys(d, u, ks) ==
    IF ks = <<>> THEN d
    ELSE UpdateKeys(Put(d, Head(ks), u.map[Head(ks)]), u, Tail(ks))

UpdateDict(d, u) == UpdateKeys(d, u, u.keys)

\* if sec in module_data: compose[sec].update(module_data[sec])
MergeSection(c, module_data, sec) ==
    IF sec \in DOMAIN module_data
    THEN [c EXCEPT ![sec] = UpdateDict(@, module_data[sec])]
    ELSE c

\* One turn of generate_compose's loop, the module's file existing.
ComposeModule ==
    /\ pc = "compose"
    /\ i <= Len(requested)
    /\ requested[i] \in DOMAIN fs
    /\ compose' = MergeSection(
                     MergeSection(
                        MergeSection(compose, fs[requested[i]], "services"),
                        fs[requested[i]], "networks"),
                     fs[requested[i]], "volumes")
    /\ i' = i + 1
    /\ UNCHANGED <<fs, args, pc, modules, requested, seen, resolved, stack,
                   output, error, status, calls, result, analyzer>>

\* generate-compose.py's load_module without the file: ERROR, sys.exit(1).
ComposeModuleNotFound ==
    /\ pc = "compose"
    /\ i <= Len(requested)
    /\ requested[i] \notin DOMAIN fs
    /\ error' = [kind |-> "NotFound", module |-> requested[i]]
    /\ status' = 1
    /\ pc' = "exit"
    /\ UNCHANGED <<fs, args, modules, requested, i, seen, resolved, stack,
                   compose, output, calls, result, analyzer>>

\* After the loop: "Remove empty sections", "Write output".
ComposeWrite ==
    /\ pc = "compose"
    /\ i > Len(requested)
    /\ compose' = RemoveEmpty(compose)
    /\ output' = <<RemoveEmpty(compose)>>
    /\ pc' = "exit"
    /\ UNCHANGED <<fs, args, modules, requested, i, seen, resolved, stack,
                   error, status, calls, result, analyzer>>

\* generate-compose.py MODULE [MODULE...], generate_compose entered.
InitCompose ==
    /\ fs \in FragmentDirs
    /\ requested \in Requests \ {<<>>}
    /\ args = [all |-> FALSE, validate |-> FALSE, modules |-> requested]
    /\ modules = Empty
    /\ i = 1
    /\ seen = {}
    /\ resolved = <<>>
    /\ stack = <<>>
    /\ compose = NewCompose
    /\ output = <<>>
    /\ error = NoError
    /\ status = 0
    /\ calls = 0
    /\ result = NoResult
    /\ NoAnalyzer
    /\ pc = "compose"

NextCompose ==
    \/ ComposeModule
    \/ ComposeModuleNotFound
    \/ ComposeWrite

SpecCompose == InitCompose /\ [][NextCompose]_vars

\* --------------------------------- generate() on docker sections of all kinds

\* docker.resources: absent, empty, with limits, with reservations, with both.
ResourcesParts ==
    {Empty, [resources |-> Empty]}
        \cup {[resources |-> [limits |-> [cpus |-> "2", memory |-> "1G"]]],
              [resources |-> [reservations |-> [cpus |-> "1", memory |-> "128M"]]],
              [resources |-> [limits |-> [cpus |-> "2", memory |-> "1G"],
                              reservations |-> [cpus |-> "1", memory |-> "128M"]]]}

PortsParts == {Empty, [ports |-> <<"80:80">>]}

\* Descriptors without dependencies whose docker section has an image.
ServiceDocs ==
    {[docker |-> [image |-> "img"] @@ r @@ p] :
        r \in ResourcesParts, p \in PortsParts}

ServiceDirs == UNION {[S -> ServiceDocs] : S \in SUBSET Names}

\* generate(req) has been called on a fresh generator over a fresh loader.
InitService ==
    /\ fs \in ServiceDirs
    /\ args = [all |-> FALSE, validate |-> FALSE, modules |-> <<>>]
    /\ requested \in Requests
    /\ modules = Empty
    /\ i = 1
    /\ seen = {}
    /\ resolved = <<>>
    /\ stack = <<>>
    /\ compose = NewCompose
    /\ output = <<>>
    /\ error = NoError
    /\ status = 0
    /\ calls = 0
    /\ result = NoResult
    /\ NoAnalyzer
    /\ pc = "resolve"

\* generate() without the step no directory of ServiceDirs enables.
NextService ==
    \/ ResolveSkip
    \/ ResolveEnter
    \/ ResolveNotFound
    \/ ResolveReturn
    \/ ResolveDone
    \/ GenerateService
    \/ GenerateFinish

SpecService == InitService /\ [][NextService]_vars

\* ------------------------------- generate() on descriptors with an image

\* generate(req) has been called on a fresh generator over a fresh loader;
\* every descriptor of the directory has its docker.image.
InitGenerate ==
    /\ InitCommon
    /\ \A n \in DOMAIN fs : ~MissingImage(fs, n)
    /\ args = [all |-> FALSE, validate |-> FALSE, modules |-> <<>>]
    /\ requested \in Requests
    /\ pc = "resolve"

SpecGenerate == InitGenerate /\ [][NextService]_vars

\* ------------------------------ generate_service on registries of all kinds

\* The module names generate_service_discovery_env tests for, and one more.
PeerNames == {"apache", "mysql", "nginx", "php", "redis", "other"}

\* docker.environment: absent, empty, without and with a DB_HOST of its own.
EnvironmentDocs ==
    {PlainDoc,
     [docker |-> [image |-> "img", environment |-> Empty]],
     [docker |-> [image |-> "img", environment |-> [TZ |-> "UTC"]]],
     [docker |-> [image |-> "img",
                  environment |-> [DB_HOST |-> "db.internal", TZ |-> "UTC"]]]}

\* The names of S in a list.
RECURSIVE ListOf(_)
ListOf(S) ==
    IF S = {} THEN <<>>
    ELSE LET x == CHOOSE y \in S : TRUE IN <<x>> \o ListOf(S \ {x})

\* resolve_dependencies has returned the request to generate(): modules
\* without dependencies, all in the registry, one of them with an
\* environment section of any kind.
InitPeers ==
    /\ \E n \in PeerNames, d \in EnvironmentDocs :
          \E S \in SUBSET (PeerNames \ {n}) :
              /\ fs = (n :> d) @@ [m \in S |-> PlainDoc]
              /\ requested = ListOf(S \cup {n})
    /\ args = [all |-> FALSE, validate |-> FALSE, modules |-> <<>>]
    /\ modules = fs
    /\ i = 1
    /\ seen = Range(requested)
    /\ resolved = requested
    /\ stack = <<>>
    /\ compose = NewCompose
    /\ output = <<>>
    /\ error = NoError
    /\ status = 0
    /\ calls = 0
    /\ result = NoResult
    /\ NoAnalyzer
    /\ pc = "services"

NextPeers ==
    \/ GenerateService
    \/ GenerateFinish

SpecPeers == InitPeers /\ [][NextPeers]_vars

\* ------------------------------------------ a client of get_dependencies

\* dependencies: null, and a mapping, which yields its keys when iterated.
NullValue == [kind |-> "null", items |-> <<>>]

MapValue == [kind |-> "map", items |-> <<"mysql">>]

\* Descriptors with a dependencies value of every kind, and with none.
DepsDocs ==
    {PlainDoc}
        \cup {[dependencies |-> v] @@ PlainDoc :
                v \in {ListValue(<<>>), ListValue(<<"mysql">>),
                       ListValue(<<"nginx", "mysql">>),
                       StrValue, NullValue, MapValue}}

DepsDirs == UNION {[S -> DepsDocs] : S \in SUBSET Names}

DepsReady == pc \in {"idle", "got", "raised"} /\ calls < MaxCalls

\* loader.load_module(n), the file existing.
DepsLoadModule ==
    /\ DepsReady
    /\ \E n \in DOMAIN fs : modules' = load_module(modules, n)
    /\ error' = NoError
    /\ pc' = "idle"
    /\ calls' = calls + 1
    /\ UNCHANGED <<fs, args, requested, i, seen, resolved, stack, compose,
                   output, status, result, analyzer>>

\* Somebody rewrites the module.yml of a module the loader has loaded.
DepsFileRewritten ==
    /\ DepsReady
    /\ \E n \in DOMAIN fs \cap DOMAIN modules, d \in DepsDocs :
          /\ fs[n] = modules[n]
          /\ d # fs[n]
          /\ fs' = [fs EXCEPT ![n] = d]
    /\ UNCHANGED <<args, pc, modules, requested, i, seen, resolved, stack,
                   compose, output, error, status, calls, result, analyzer>>

\* loader.get_dependencies(n): n in the registry, or its file existing.
DepsGet ==
    /\ DepsReady
    /\ \E n \in DOMAIN modules \cup DOMAIN fs :
          /\ modules' = IF n \in DOMAIN modules THEN modules
                        ELSE load_module(modules, n)
          /\ result' = [name |-> n, value |-> get_dependencies(modules', n)]
    /\ error' = NoError
    /\ pc' = "got"
    /\ calls' = calls + 1
    /\ UNCHANGED <<fs, args, requested, i, seen, resolved, stack, compose,
                   output, status, analyzer>>

\* loader.get_dependencies(n): n not in the registry and without a file.
DepsGetNotFound ==
    /\ DepsReady
    /\ \E n \in Names \ (DOMAIN modules \cup DOMAIN fs) :
          error' = FileNotFound(n)
    /\ pc' = "raised"
    /\ calls' = calls + 1
    /\ UNCHANGED <<fs, args, modules, requested, i, seen, resolved, stack,
                   compose, output, status, result, analyzer>>

\* A fresh loader.
InitDeps ==
    /\ fs \in DepsDirs
    /\ args = [all |-> FALSE, validate |-> FALSE, modules |-> <<>>]
    /\ requested = <<>>
    /\ modules = Empty
    /\ i = 1
    /\ seen = {}
    /\ resolved = <<>>
    /\ stack = <<>>
    /\ compose = NewCompose
    /\ output = <<>>
    /\ error = NoError
    /\ status = 0
    /\ calls = 0
    /\ result = NoResult
    /\ NoAnalyzer
    /\ pc = "idle"

NextDeps ==
    \/ DepsLoadModule
    \/ DepsFileRewritten
    \/ DepsGet
    \/ DepsGetNotFound

SpecDeps == InitDeps /\ [][NextDeps]_vars

\* ------------------------------------------------------------ GitAnalyzer

MAX_RETRIES == 3

\* A repository URL by what the analyzer's tests find in it: whether it is
\* the empty string, has github.com or gitlab.com in it, matches a pattern
\* of _parse_github_url, and whether urlparse rejects it (a "[" without "]"
\* in the host, as in http://[gitlab.com/x: ValueError, Invalid IPv6 URL).
Urls ==
    {u \in [empty : BOOLEAN, github : BOOLEAN, gitlab : BOOLEAN,
            owner_repo : BOOLEAN, invalid_ipv6 : BOOLEAN] :
        /\ u.empty => ~(u.github \/ u.gitlab \/ u.invalid_ipv6)
        /\ u.owner_repo => u.github}

_detect_platform(url) ==
    IF url.github THEN "github"
    ELSE IF url.gitlab THEN "gitlab"
    ELSE "unknown"

\* The RepositoryMetadata of a fetch that succeeded.
FetchedMetadata(platform) ==
    {[platform |-> platform, stars |-> n, forks |-> n, fetch_error |-> "None"] :
        n \in {0, 7}}

_create_error_metadata(error_message) ==
    [platform |-> "unknown", stars |-> 0, forks |-> 0,
     fetch_error |-> error_message]

\* cache_dir being set or not, and the cache file of repo_url: none, or the
\* metadata an earlier call saved, less or more than 24 hours ago.
Caches ==
    {[dir |-> FALSE, file |-> <<>>], [dir |-> TRUE, file |-> <<>>]}
        \cup {[dir |-> TRUE, file |-> <<[data |-> m, expired |-> e]>>] :
                m \in FetchedMetadata("github"), e \in BOOLEAN}

\* _load_from_cache returns metadata.
CacheHit ==
    use_cache /\ cache.dir /\ cache.file # <<>> /\ ~cache.file[1].expired

\* "Cache the result", return metadata.
Return(m) ==
    /\ metadata' = <<m>>
    /\ cache' = IF cache.dir /\ m.fetch_error = "None"
                THEN [cache EXCEPT !.file = <<[data |-> m, expired |-> FALSE]>>]
                ELSE cache
    /\ pc' = "returned"

GitFrame ==
    UNCHANGED <<fs, args, modules, requested, i, seen, resolved, stack,
                compose, output, status, calls, result, repo_url, use_cache>>

\* if not repo_url
AnalyzeEmpty ==
    /\ pc = "analyze"
    /\ repo_url.empty
    /\ metadata' = <<_create_error_metadata("Empty repository URL")>>
    /\ pc' = "returned"
    /\ UNCHANGED <<cache, attempt, error>>
    /\ GitFrame

\* "Check cache first"
AnalyzeCached ==
    /\ pc = "analyze"
    /\ ~repo_url.empty
    /\ CacheHit
    /\ metadata' = <<cache.file[1].data>>
    /\ pc' = "returned"
    /\ UNCHANGED <<cache, attempt, error>>
    /\ GitFrame

\* Neither github nor gitlab.
AnalyzeUnsupported ==
    /\ pc = "analyze"
    /\ ~repo_url.empty
    /\ ~CacheHit
    /\ _detect_platform(repo_url) = "unknown"
    /\ Return(_create_error_metadata("Unsupported platform"))
    /\ UNCHANGED <<attempt, error>>
    /\ GitFrame

\* _analyze_github: _parse_github_url returns None.
GithubNotParsed ==
    /\ pc = "analyze"
    /\ ~repo_url.empty
    /\ ~CacheHit
    /\ _detect_platform(repo_url) = "github"
    /\ ~repo_url.owner_repo
    /\ Return(_create_error_metadata("Could not parse GitHub URL"))
    /\ UNCHANGED <<attempt, error>>
    /\ GitFrame

\* _analyze_github reaches its loop.
GithubEnter ==
    /\ pc = "analyze"
    /\ ~repo_url.empty
    /\ ~CacheHit
    /\ _detect_platform(repo_url) = "github"
    /\ repo_url.owner_repo
    /\ attempt' = 0
    /\ pc' = "github"
    /\ UNCHANGED <<cache, metadata, error>>
    /\ GitFrame

\* What an attempt ends in: the try body without an exception, the rate
\* limit answer, HTTPError with 404, HTTPError with another status, Timeout,
\* any other exception.
GithubOutcomes ==
    {"ok", "rate_limit", "not_found", "http_error", "timeout", "exception"}

\* The handlers that retry: sleep and continue, or the error after the
\* last attempt.
RetryOrReturn(error_message) ==
    IF attempt < MAX_RETRIES - 1
    THEN /\ attempt' = attempt + 1
         /\ UNCHANGED <<pc, cache, metadata>>
    ELSE /\ Return(_create_error_metadata(error_message))
         /\ UNCHANGED attempt

\* One turn of _analyze_github's loop.
GithubAttempt ==
    /\ pc = "github"
    /\ attempt < MAX_RETRIES
    /\ \E outcome \in GithubOutcomes :
          CASE outcome = "ok" ->
                 /\ \E m \in FetchedMetadata("github") : Return(m)
                 /\ UNCHANGED attempt
            [] outcome = "rate_limit" ->
                 /\ Return(_create_error_metadata("GitHub API rate limit exceeded"))
                 /\ UNCHANGED attempt
            [] outcome = "not_found" ->
                 /\ Return(_create_error_metadata("Repository not found"))
                 /\ UNCHANGED attempt
            [] outcome = "http_error" -> RetryOrReturn("HTTP error analyzing")
            [] outcome = "timeout" -> RetryOrReturn("Timeout analyzing")
            [] outcome = "exception" -> RetryOrReturn("Error analyzing")
    /\ UNCHANGED error
    /\ GitFrame

\* _analyze_gitlab: urlparse(repo_url) raises ValueError, outside any try.
GitlabUrlparseRaises ==
    /\ pc = "analyze"
    /\ ~repo_url.empty
    /\ ~CacheHit
    /\ _detect_platform(repo_url) = "gitlab"
    /\ repo_url.invalid_ipv6
    /\ error' = [kind |-> "ValueError", module |-> ""]
    /\ pc' = "raised"
    /\ UNCHANGED <<cache, attempt, metadata>>
    /\ GitFrame

\* _analyze_gitlab reaches its loop.
GitlabEnter ==
    /\ pc = "analyze"
    /\ ~repo_url.empty
    /\ ~CacheHit
    /\ _detect_platform(repo_url) = "gitlab"
    /\ ~repo_url.invalid_ipv6
    /\ attempt' = 0
    /\ pc' = "gitlab"
    /\ UNCHANGED <<cache, metadata, error>>
    /\ GitFrame

\* One turn of _analyze_gitlab's loop.
GitlabAttempt ==
    /\ pc = "gitlab"
    /\ attempt < MAX_RETRIES
    /\ \E outcome \in {"ok", "not_found", "http_error", "exception"} :
          CASE outcome = "ok" ->
                 /\ \E m \in FetchedMetadata("gitlab") : Return(m)
                 /\ UNCHANGED attempt
            [] outcome = "not_found" ->
                 /\ Return(_create_error_metadata("Repository not found"))
                 /\ UNCHANGED attempt
            [] outcome = "http_error" -> RetryOrReturn("HTTP error analyzing")
            [] outcome = "exception" -> RetryOrReturn("Error analyzing")
    /\ UNCHANGED error
    /\ GitFrame

\* analyzer.analyze_repository(repo_url, use_cache) has been called.
InitGit ==
    /\ repo_url \in Urls
    /\ use_cache \in BOOLEAN
    /\ cache \in Caches
    /\ attempt = 0
    /\ metadata = <<>>
    /\ fs = Empty
    /\ args = [all |-> FALSE, validate |-> FALSE, modules |-> <<>>]
    /\ requested = <<>>
    /\ modules = Empty
    /\ i = 1
    /\ seen = {}
    /\ resolved = <<>>
    /\ stack = <<>>
    /\ compose = NewCompose
    /\ output = <<>>
    /\ error = NoError
    /\ status = 0
    /\ calls = 0
    /\ result = NoResult
    /\ pc = "analyze"

NextGit ==
    \/ AnalyzeEmpty
    \/ AnalyzeCached
    \/ AnalyzeUnsupported
    \/ GithubNotParsed
    \/ GithubEnter
    \/ GithubAttempt
    \/ GitlabUrlparseRaises
    \/ GitlabEnter
    \/ GitlabAttempt

SpecGit == InitGit /\ [][NextGit]_vars

\* ----------------------------------------------------------------- claims

\* The names module n declares as dependencies in its module.yml.
Declared(n) ==
    IF n \in DOMAIN fs /\ "dependencies" \in DOMAIN fs[n]
          /\ fs[n].dependencies.kind = "list"
    THEN Range(fs[n].dependencies.items)
    ELSE {}

\* The reflexive transitive closure of S under Declared.
RECURSIVE Closure(_)
Closure(S) ==
    LET T == S \cup UNION {Declared(n) : n \in S}
    IN  IF T = S THEN S ELSE Closure(T)

OnCycle(n) == n \in Closure(Declared(n))

Acyclic == \A n \in Names : ~OnCycle(n)

LacksImage(n) ==
    n \in DOMAIN fs /\ "image" \notin DOMAIN Get(fs[n], "docker", Empty)

DeclaredEnv(n) == Get(Get(fs[n], "docker", Empty), "environment", Empty)

SameDict(a, b) == DOMAIN a = DOMAIN b /\ \A k \in DOMAIN a : a[k] = b[k]

Services == compose.services.map

\* resolve_dependencies has returned its list.
Returned == pc \in {"services", "generated"}

\* C1: on an acyclic dependency graph resolve_dependencies returns every
\* module once, each after all the dependencies it declares; A depending on B
\* alone resolves to [B, A].
C1_DependenciesFirst ==
    (Returned /\ Acyclic) =>
        /\ \A j, k \in 1..Len(resolved) : resolved[j] = resolved[k] => j = k
        /\ \A k \in 1..Len(resolved) : \A d \in Declared(resolved[k]) :
                \E j \in 1..(k - 1) : resolved[j] = d
        /\ (/\ requested = <<"apache">>
            /\ Declared("apache") = {"mysql"}
            /\ Declared("mysql") = {})
                => resolved = <<"mysql", "apache">>

\* C1's case: an acyclic graph resolved in which one module is a dependency
\* of two others.
C1_Witness ==
    /\ pc = "services"
    /\ Acyclic
    /\ \E d \in Range(resolved) :
            Cardinality({m \in Range(resolved) : d \in Declared(m)}) >= 2

\* C2: the names resolve_dependencies returns are exactly the modules
\* reachable from the requested names along declared dependencies, cycles
\* or not.
C2_TransitiveClosure ==
    Returned => Range(resolved) = Closure(Range(requested))

\* C2's case: a request on a cycle that pulls in a module nobody requested.
C2_Witness ==
    /\ pc = "services"
    /\ \E n \in Range(resolved) : OnCycle(n)
    /\ Range(resolved) \ Range(requested) # {}

\* C3: a key the module's docker.environment declares keeps its declared
\* value in the service's environment, whatever the linker derives.
C3_DeclaredEnvWins ==
    \A m \in DOMAIN Services : \A k \in DOMAIN DeclaredEnv(m) :
        /\ "environment" \in DOMAIN Services[m]
        /\ Services[m].environment[k] = DeclaredEnv(m)[k]

\* C4: the environment of every service of a generate() run is what the
\* linker derives from the module name and the resolved set alone, whatever
\* else the registry holds.
C4_EnvFromResolvedSet ==
    pc = "generated" =>
        \A m \in Range(resolved) :
            SameDict(Get(Services[m], "environment", Empty),
                     generate_service_discovery_env(
                        m, DeclaredEnv(m),
                        [n \in Range(resolved) |-> fs[n]]))

\* C5: resolve_dependencies always comes to an end, by returning or by the
\* not-found error of a missing descriptor and by no other error, and a call
\* for a module whose own call is still active returns at once, adding
\* nothing.
C5_ResolveTerminates ==
    /\ (pc = "resolve") ~>
            (\/ pc = "services"
             \/ pc = "raised" /\ error.kind = "FileNotFoundError")
    /\ [][(/\ pc = "resolve"
           /\ HasCallee
           /\ Callee \in {stack[k].name : k \in 1..Len(stack)})
            => (/\ pc' = "resolve"
                /\ resolved' = resolved
                /\ seen' = seen
                /\ Len(stack') = Len(stack))]_vars

\* C5's case: resolution has returned on a graph with a cycle (a module
\* that lists itself included).
C5_Witness == pc = "services" /\ \E n \in Range(resolved) : OnCycle(n)

\* C6: when generate() has returned, the keys of compose['services'] are the
\* resolved order, name for name; app depending on db, requested as
\* [app, web], gives [db, app, web].
C6_ServicesKeys ==
    pc = "generated" =>
        /\ compose.services.keys = resolved
        /\ DOMAIN Services = Range(resolved)
        /\ (/\ requested = <<"apache", "nginx">>
            /\ Declared("apache") = {"mysql"}
            /\ Declared("mysql") = {}
            /\ Declared("nginx") = {})
                => compose.services.keys = <<"mysql", "apache", "nginx">>

\* C6's case: the three-module example has been generated.
C6_Witness ==
    /\ pc = "generated"
    /\ requested = <<"apache", "nginx">>
    /\ compose.services.keys = <<"mysql", "apache", "nginx">>

\* C7: every service, in memory and in the written file, has the fixed
\* security_opt and cap_drop, whatever its descriptor says.
C7_SecurityBaseline ==
    \A c \in {compose} \cup Range(output) : \A m \in DOMAIN c.services.map :
        /\ c.services.map[m].security_opt = <<"no-new-privileges:true">>
        /\ c.services.map[m].cap_drop = <<"ALL">>

\* C7's case: a file is written with the service of a module whose docker
\* section has security_opt and cap_drop keys of its own.
C7_Witness ==
    /\ output # <<>>
    /\ \E m \in DOMAIN output[1].services.map :
            {"security_opt", "cap_drop"} \subseteq DOMAIN fs[m].docker

\* C8: once a module without docker.image is in the resolved list, no file
\* is written and generate() does not return; when resolution completes the
\* run ends with status 1 on the ValueError naming such a module.
C8_MissingImageFails ==
    (\E m \in Range(resolved) : LacksImage(m)) =>
        /\ output = <<>>
        /\ pc # "generated"
        /\ pc = "exit" =>
            /\ status = 1
            /\ error.kind \in {"ValueError", "FileNotFoundError"}
            /\ error.kind = "ValueError" => LacksImage(error.module)
        /\ (pc = "exit" /\ Range(resolved) = Closure(Range(requested)))
                => error.kind = "ValueError"

\* C8's case: the run has failed on a module without image that comes last
\* in the resolution order, after a service was synthesized.
C8_Witness ==
    /\ pc = "exit"
    /\ error.kind = "ValueError"
    /\ Len(resolved) >= 2
    /\ error.module = resolved[Len(resolved)]
    /\ compose.services.keys # <<>>

\* C9: no descriptor without docker.image is an entry of the registry.
C9_LoadRejectsMissingImage ==
    \A m \in DOMAIN modules :
        "image" \in DOMAIN Get(modules[m], "docker", Empty)

\* C10: a --validate run synthesizes nothing and writes nothing, and it ends
\* in failure when a requested module reaches, along declared dependencies,
\* a module without descriptor.
C10_ValidateResolves ==
    (pc = "exit" /\ args.validate) =>
        /\ output = <<>>
        /\ compose.services.keys = <<>>
        /\ (\E d \in Closure(Range(requested)) : d \notin DOMAIN fs)
                => status = 1

\* C11: a run that ends with a fatal error (a requested module or a
\* dependency not found, a descriptor without docker.image) has written no
\* output file; the file is written only by a run that loaded every
\* requested module, resolved them and generated a service for each resolved
\* module.
C11_NoPartialOutput ==
    /\ (error # NoError \/ status = 1) => output = <<>>
    /\ output # <<>> =>
          /\ pc = "exit"
          /\ Range(requested) \subseteq DOMAIN modules
          /\ Range(resolved) = Closure(Range(requested))
          /\ DOMAIN Services = Range(resolved)
          /\ output = <<compose>>

\* A run that failed on a missing image after it had generated a service.
C11_Witness ==
    /\ pc = "exit"
    /\ status = 1
    /\ error.kind = "ValueError"
    /\ DOMAIN Services # {}
    /\ output = <<>>

\* C12: a load_module(name) for which no descriptor file exists fails with a
\* not-found error that names the module and the path where its module.yml
\* was expected, and leaves the registry as it was: no entry for name is
\* added and no entry is altered.
C12_FailedLoadKeepsRegistry ==
    [][(error' # error /\ error'.kind = "FileNotFoundError") =>
          /\ error'.module \notin DOMAIN fs
          /\ error'.path = module_file(error'.module)
          /\ modules' = modules
          /\ error'.module \notin DOMAIN modules']_vars

\* A load failed on a registry that already held a descriptor.
C12_Witness ==
    /\ error.kind = "FileNotFoundError"
    /\ error.module \notin DOMAIN fs
    /\ DOMAIN modules # {}
    /\ error.module \notin DOMAIN modules

\* C13: generate(X) and save, then generate(X) again on the same generator
\* and save: the second generate returns, and what save would write is
\* what the first save wrote, whether or not a module of X declares a volume
\* (stated for the non-empty X).
C13_SecondGenerateSameOutput ==
    (calls = 3 /\ requested # <<>> /\ pc \in {"generated", "raised"}) =>
        (pc = "generated" /\ save = output)

\* The network names module n declares, and the volume names it declares.
DeclaredNetworks(n) == Range(Get(Get(fs[n], "docker", Empty), "networks", <<>>))

DeclaredVolumes(n) == Range(Get(fs[n], "volumes", <<>>))

\* generate() has returned the manifest to main().
Generated == pc = "generated" \/ output # <<>>

\* C14: the networks map of a generated manifest has as keys the network
\* names the resolved modules declare together with ahab_network, each
\* mapped to the bridge definition whose name is its key; so the manifest
\* always has a networks section, also when no module declares a network.
C14_NetworksMap ==
    Generated =>
        /\ "networks" \in DOMAIN compose
        /\ DOMAIN compose.networks.map =
              UNION {DeclaredNetworks(n) : n \in Range(resolved)}
                  \cup {"ahab_network"}
        /\ Range(compose.networks.keys) = DOMAIN compose.networks.map
        /\ \A k \in DOMAIN compose.networks.map :
              /\ compose.networks.map[k].driver = "bridge"
              /\ compose.networks.map[k].name = k
              /\ compose.networks.map[k].labels =
                    [network |-> "true", created |-> "auto-generated"]

\* A manifest of two modules, one declaring a network and one declaring none.
C14_Witness ==
    /\ pc = "generated"
    /\ \E n, m \in Range(resolved) :
          DeclaredNetworks(n) # {} /\ DeclaredNetworks(m) = {}
    /\ DOMAIN compose.networks.map = {"backend", "ahab_network"}

\* C15: the volumes map of a generated manifest has as keys exactly the
\* volume names the resolved modules declare, nothing implicit added; the
\* manifest has no volumes key, rather than an empty map, exactly when no
\* resolved module declares a volume.
C15_VolumesMap ==
    LET declared == UNION {DeclaredVolumes(n) : n \in Range(resolved)}
    IN  Generated =>
            /\ "volumes" \notin DOMAIN compose <=> declared = {}
            /\ "volumes" \in DOMAIN compose =>
                  /\ DOMAIN compose.volumes.map = declared
                  /\ Range(compose.volumes.keys) = declared
                  /\ \A k \in declared : compose.volumes.map[k] = VolumeDef

\* A saved manifest of two modules, one declaring a volume and one declaring
\* none.
C15_Witness ==
    /\ output # <<>>
    /\ "volumes" \in DOMAIN output[1]
    /\ DOMAIN output[1].volumes.map = {"data"}
    /\ \E n \in Range(resolved) : DeclaredVolumes(n) = {}

\* C16: two runs on the same descriptors and the same request write the
\* networks keys in the same order, and the volumes keys in the same order:
\* the manifest a run has generated lists them as the file the run before it
\* wrote does.
C16_StableSectionOrder ==
    (pc = "generated" /\ output # <<>>) =>
        /\ compose.networks.keys = output[1].networks.keys
        /\ "volumes" \in DOMAIN compose =>
              compose.volumes.keys = output[1].volumes.keys

\* C17: no declaration of a requested module is silently replaced when the
\* modules are merged: the manifest a run has written without reporting an
\* error holds, under every service, network and volume name a requested
\* module contributes, that module's entry.
C17_NoSilentReplacement ==
    (pc = "exit" /\ output # <<>> /\ error = NoError) =>
        \A n \in Range(requested) :
            \A sec \in Sections \cap DOMAIN fs[n] :
                \A k \in DOMAIN fs[n][sec].map :
                    /\ sec \in DOMAIN output[1]
                    /\ k \in DOMAIN output[1][sec].map
                    /\ output[1][sec].map[k] = fs[n][sec].map[k]

\* C18: within one run the registry only grows and an entry once set stays
\* as it is, and no module.yml is read a second time: a turn of main()'s
\* loading loop, which calls load_module and so reads the file of
\* requested[i], is taken only for a name the registry does not hold yet,
\* also with --all and with a name that occurs twice in the request.
C18_LoadedOncePerName ==
    [][/\ \A n \in DOMAIN modules :
             n \in DOMAIN modules' /\ modules'[n] = modules[n]
       /\ MainLoad => requested[i] \notin DOMAIN modules]_vars

\* The dependencies value of n's module.yml when it is a list, in its order.
DeclaredList(n) ==
    IF "dependencies" \in DOMAIN fs[n] /\ fs[n].dependencies.kind = "list"
    THEN fs[n].dependencies.items
    ELSE <<>>

\* C19: a service's depends_on is the list of dependencies its module
\* declares, in the declared order and without the dependencies of its
\* dependencies; the service has no depends_on key when that list is empty
\* or the dependencies value is not a list.
C19_DependsOnDirect ==
    \A n \in DOMAIN Services :
        IF DeclaredList(n) = <<>>
        THEN "depends_on" \notin DOMAIN Services[n]
        ELSE /\ "depends_on" \in DOMAIN Services[n]
             /\ Services[n].depends_on = DeclaredList(n)

\* A service with a dependency that has a dependency of its own, next to a
\* service without depends_on.
C19_Witness ==
    /\ pc = "generated"
    /\ \E n \in DOMAIN Services :
          /\ "depends_on" \in DOMAIN Services[n]
          /\ Closure(Declared(n)) \ (Declared(n) \cup {n}) # {}
    /\ \E n \in DOMAIN Services : "depends_on" \notin DOMAIN Services[n]

\* The docker.resources section of n's module.yml, empty when it has none.
DeclaredResources(n) == Get(Get(fs[n], "docker", Empty), "resources", Empty)

\* C20: a service's deploy.resources.limits is the module's
\* docker.resources.limits when it gives one and cpus 0.5, memory 512M
\* otherwise; its reservations are docker.resources.reservations when given
\* and cpus 0.25, memory 256M otherwise; the one falls back whatever the
\* other does, and a module without docker.resources gets both defaults.
C20_ResourceFallback ==
    \A n \in DOMAIN Services :
        LET r == DeclaredResources(n)
            out == Services[n].deploy.resources
        IN  /\ DOMAIN out = {"limits", "reservations"}
            /\ out.limits =
                  IF "limits" \in DOMAIN r THEN r.limits
                  ELSE [cpus |-> "0.5", memory |-> "512M"]
            /\ out.reservations =
                  IF "reservations" \in DOMAIN r THEN r.reservations
                  ELSE [cpus |-> "0.25", memory |-> "256M"]

\* Two services in one manifest: one with its own limits and the default
\* reservations, one with the default limits and its own reservations.
C20_Witness ==
    /\ pc = "generated"
    /\ \E n, m \in DOMAIN Services :
          /\ DOMAIN DeclaredResources(n) = {"limits"}
          /\ Services[n].deploy.resources.limits = [cpus |-> "2", memory |-> "1G"]
          /\ Services[n].deploy.resources.reservations =
                [cpus |-> "0.25", memory |-> "256M"]
          /\ DOMAIN DeclaredResources(m) = {"reservations"}
          /\ Services[m].deploy.resources.limits =
                [cpus |-> "0.5", memory |-> "512M"]
          /\ Services[m].deploy.resources.reservations =
                [cpus |-> "1", memory |-> "128M"]

\* C21: a service has cap_add, and it is NET_BIND_SERVICE, SETUID, SETGID,
\* DAC_OVERRIDE, exactly when its module is apache or nginx or the module's
\* docker section has a ports key; every other service has no cap_add key.
C21_CapAdd ==
    \A n \in DOMAIN Services :
        IF n \in {"apache", "nginx"}
              \/ "ports" \in DOMAIN Get(fs[n], "docker", Empty)
        THEN /\ "cap_add" \in DOMAIN Services[n]
             /\ Services[n].cap_add =
                   <<"NET_BIND_SERVICE", "SETUID", "SETGID", "DAC_OVERRIDE">>
        ELSE "cap_add" \notin DOMAIN Services[n]

\* One manifest in which apache, without ports, has cap_add and mysql,
\* without ports, has none.
C21_Witness ==
    /\ pc = "generated"
    /\ {"apache", "mysql"} \subseteq DOMAIN Services
    /\ "ports" \notin DOMAIN fs["apache"].docker
    /\ "cap_add" \in DOMAIN Services["apache"]
    /\ "ports" \notin DOMAIN fs["mysql"].docker
    /\ "cap_add" \notin DOMAIN Services["mysql"]

\* The table of derived variables: what module n is given for the peers in
\* the resolved set.
DerivedTable(n) ==
    (IF n \in {"php", "apache"} /\ "mysql" \in Range(resolved)
     THEN [DB_HOST |-> "ahab_mysql", DB_PORT |-> "3306",
           DB_NAME |-> "${MYSQL_DATABASE:-webapp}",
           DB_USER |-> "${MYSQL_USER:-webapp}",
           DB_PASSWORD |-> "${MYSQL_PASSWORD:-webapp123}"]
     ELSE Empty)
    @@ (IF n \in {"php", "apache"} /\ "redis" \in Range(resolved)
        THEN [REDIS_HOST |-> "ahab_redis", REDIS_PORT |-> "6379"]
        ELSE Empty)
    @@ (IF n = "nginx" /\ "php" \in Range(resolved)
        THEN [PHP_UPSTREAM |-> "ahab_php:80"] ELSE Empty)
    @@ (IF n = "nginx" /\ "apache" \in Range(resolved)
        THEN [APACHE_UPSTREAM |-> "ahab_apache:80"] ELSE Empty)

\* C22: a service's environment holds the variables its module declares and
\* the derived variables of the table, no other; a derived variable the
\* module does not declare has the table's value, a declared variable that
\* is not derived has the declared value; the service has an environment
\* key only when there is a variable.
C22_DerivedTable ==
    \A n \in DOMAIN Services :
        LET declared == DeclaredEnv(n)
            derived == DerivedTable(n)
            env == Get(Services[n], "environment", Empty)
        IN  /\ DOMAIN env = DOMAIN declared \cup DOMAIN derived
            /\ "environment" \in DOMAIN Services[n] <=> DOMAIN env # {}
            /\ \A k \in DOMAIN derived \ DOMAIN declared : env[k] = derived[k]
            /\ \A k \in DOMAIN declared \ DOMAIN derived : env[k] = declared[k]

\* nginx with php and apache in the manifest, and mysql and redis too, which
\* give nginx nothing.
C22_Witness ==
    /\ pc = "generated"
    /\ {"nginx", "php", "apache", "mysql", "redis"} \subseteq DOMAIN Services
    /\ DOMAIN Services["nginx"].environment =
          {"TZ", "PHP_UPSTREAM", "APACHE_UPSTREAM"}

\* The place of x in the list s, the first one when it has several.
FirstPos(s, x) ==
    CHOOSE k \in 1..Len(s) : s[k] = x /\ \A j \in 1..(k - 1) : s[j] # x

\* C23, as stated: of two distinct requested names the one requested first
\* is the earlier one in the list resolve_dependencies returns, whatever the
\* request and the dependencies.
C23_RequestOrderPreserved ==
    pc = "services" =>
        \A a, b \in Range(requested) :
            FirstPos(requested, a) < FirstPos(requested, b) =>
                FirstPos(resolved, a) < FirstPos(resolved, b)

\* C23, amended: of two distinct requested names the one requested first is
\* the earlier one in the returned list unless the other is a dependency,
\* direct or transitive, of a name requested no later than the first.
C23_RequestOrderUnlessDependency ==
    pc = "services" =>
        \A a, b \in Range(requested) :
            (/\ FirstPos(requested, a) < FirstPos(requested, b)
             /\ b \notin Closure({requested[k] :
                                    k \in 1..FirstPos(requested, a)}))
                => FirstPos(resolved, a) < FirstPos(resolved, b)

\* Two names requested, the first with a dependency, the second not among
\* the first's dependencies: three names returned.
C23_Witness ==
    /\ pc = "services"
    /\ Len(requested) = 2
    /\ requested[1] # requested[2]
    /\ Declared(requested[1]) # {}
    /\ requested[2] \notin Closure({requested[1]})
    /\ Len(resolved) = 3
    /\ FirstPos(resolved, requested[1]) < FirstPos(resolved, requested[2])

\* C24: get_dependencies(name) loads the descriptor only when name is not in
\* the registry, the registry staying as it is otherwise; it returns the
\* list the registry's descriptor declares, and the empty list, raising
\* nothing, when the descriptor has no dependencies or a value that is not a
\* list (a string, null, a mapping).
C24_GetDependencies ==
    [][pc' = "got" =>
        LET n == result'.name
            kept == n \in DOMAIN modules
        IN  /\ error' = NoError
            /\ kept => modules' = modules
            /\ ~kept => modules' = (n :> fs[n]) @@ modules
            /\ result'.value =
                  IF "dependencies" \in DOMAIN modules'[n]
                        /\ modules'[n].dependencies.kind = "list"
                  THEN modules'[n].dependencies.items
                  ELSE <<>>]_vars

\* get_dependencies has returned the empty list for a mapping found in the
\* registry, the file saying something else by now.
C24_Witness ==
    /\ pc = "got"
    /\ modules[result.name] # fs[result.name]
    /\ "dependencies" \in DOMAIN modules[result.name]
    /\ modules[result.name].dependencies.kind = "map"
    /\ result.value = <<>>

\* C25: analyze_repository never raises; it returns a RepositoryMetadata
\* after at most MAX_RETRIES attempts of the main request, and when the
\* fetch did not succeed the result has fetch_error set, stars = forks = 0,
\* and is not the content of the cache file.
C25_AnalyzeNeverRaises ==
    /\ pc # "raised"
    /\ attempt < MAX_RETRIES
    /\ pc = "returned" =>
          /\ metadata # <<>>
          /\ metadata[1].fetch_error # "None" =>
                /\ metadata[1].stars = 0
                /\ metadata[1].forks = 0
                /\ cache.file # <<[data |-> metadata[1], expired |-> FALSE]>>

\* The modules on a dependency cycle with n, n among them.
CycleOf(n) == {x \in Closure({n}) : n \in Closure({x})}

\* resolve(n) has started before the call for any other member of n's cycle.
EnteredFirst(n) == OnCycle(n) /\ CycleOf(n) \cap seen = {n}

\* x stands in the list s, and ahead of every y in it.
Before(s, x, y) ==
    \E k \in 1..Len(s) : s[k] = x /\ \A j \in 1..k : s[j] # y

\* C26: cycles or not, in the list resolve_dependencies returns a dependency
\* d that module m declares stands before m whenever d does not depend on m,
\* directly or transitively; and the member of a cycle whose resolve() call
\* started first stands after every other module reachable from it.
C26_OnlyCycleEdgesViolated ==
    /\ [](pc = "services" =>
            \A m \in Range(resolved) : \A d \in Declared(m) :
                m \notin Closure(Declared(d)) => Before(resolved, d, m))
    /\ \A n \in Names :
          [](EnteredFirst(n) =>
                [](pc = "services" =>
                      /\ n \in Range(resolved)
                      /\ \A x \in Closure(Declared(n)) \ {n} :
                            Before(resolved, x, n)))

\* A cycle of two, one member of which declares a third module that is on
\* no cycle: returned with the third module ahead of the member declaring it
\* and the cycle's first member behind the other.
C26_Witness ==
    /\ pc = "services"
    /\ \E m \in Range(resolved) : \E d \in Declared(m) :
          /\ Cardinality(CycleOf(m)) = 2
          /\ ~OnCycle(d)
          /\ FirstPos(resolved, d) < FirstPos(resolved, m)
          /\ \E x \in CycleOf(m) \ {m} :
                FirstPos(resolved, m) < FirstPos(resolved, x)

\* C27: a second generate(Y) on a generator that has served generate(X)
\* completes without the KeyError of a missing section, also when X
\* declared no volume, and its manifest has the services, networks and
\* volumes of the modules resolved for Y and no others (stated for the
\* non-empty Y).
C27_SecondGenerateOnlyOfY ==
    (calls = 2 /\ requested # <<>> /\ pc \in {"generated", "raised"}) =>
        /\ error.kind # "KeyError"
        /\ pc = "generated" =>
              /\ DOMAIN Services = Range(resolved)
              /\ "networks" \in DOMAIN compose
              /\ DOMAIN compose.networks.map =
                    UNION {DeclaredNetworks(n) : n \in Range(resolved)}
                        \cup {"ahab_network"}
              /\ "volumes" \in DOMAIN compose =>
                    DOMAIN compose.volumes.map =
                        UNION {DeclaredVolumes(n) : n \in Range(resolved)}

\* C28: in a run of main(), with names on the command line or with --all,
\* the registry's keys are the resolved names while the services are
\* synthesized, from the first one on; so a module the linker finds in the
\* registry is one of the manifest's services.
C28_RegistryIsResolvedSet ==
    /\ pc = "services" => DOMAIN modules = Range(resolved)
    /\ pc = "generated" =>
          \A n \in DOMAIN Services : \A peer \in DOMAIN modules :
              peer \in DOMAIN Services

\* The first service is about to be synthesized; a dependency nobody
\* requested is in the registry, and a module of the directory is not.
C28_Witness ==
    /\ pc = "services"
    /\ i = 1
    /\ resolved # <<>>
    /\ DOMAIN modules \ Range(requested) # {}
    /\ DOMAIN fs \ DOMAIN modules # {}

\* C29: generate() loads every descriptor while it resolves: when
\* resolve_dependencies has returned, each resolved name is in the
\* registry, the synthesis of services, networks and volumes leaves the
\* registry as it is, and no service is in the manifest while resolution
\* runs or after it has failed.
C29_LoadingEndsBeforeSynthesis ==
    /\ [](pc = "services" => Range(resolved) \subseteq DOMAIN modules)
    /\ [][pc = "services" => modules' = modules]_vars
    /\ [](pc \in {"resolve", "raised"} => compose.services.keys = <<>>)

\* The first service has been synthesized, of a request that made
\* resolve_dependencies load a module nobody requested.
C29_Witness ==
    /\ pc = "services"
    /\ i = 2
    /\ Len(compose.services.keys) = 1
    /\ DOMAIN modules \ Range(requested) # {}

\* C30: in the manifest generate() returns on a fresh generator, every name
\* in a service's depends_on is a key of services, and every network a
\* service lists is a key of the top-level networks.
C30_ReferentiallyClosed ==
    pc = "generated" =>
        \A n \in DOMAIN Services :
            /\ Range(Get(Services[n], "depends_on", <<>>))
                  \subseteq DOMAIN Services
            /\ Range(Get(Services[n], "networks", <<>>))
                  \subseteq DOMAIN Get(compose, "networks", EmptyDict).map

\* A manifest with a service that depends on another one and a service
\* that lists a network of its own.
C30_Witness ==
    /\ pc = "generated"
    /\ \E n \in DOMAIN Services :
          /\ "depends_on" \in DOMAIN Services[n]
          /\ n \notin Range(Services[n].depends_on)
    /\ \E n \in DOMAIN Services :
          /\ "networks" \in DOMAIN Services[n]
          /\ "backend" \in Range(Services[n].networks)

====
